---- MODULE Spec2Model ----
(***************************************************************************)
(* Model of diy.py: the Injector registry, the Injectable and Singleton    *)
(* metaclasses, the Named requirement, and the classes of the doctest.     *)
(* A call (construct / get_instance) is evaluated as one step by the       *)
(* recursive operators MetaCall / get_instance, which thread the singleton *)
(* slots, the next free object identity and a log of what the call did.    *)
(***************************************************************************)
EXTENDS Integers, Sequences, FiniteSets, TLC

VARIABLES providers, instance, last, threads

vars == <<providers, instance, last, threads>>

-----------------------------------------------------------------------------
(* Bounds *)

\* nesting depth of get_instance before the interpreter gives up
MaxDepth == 4
\* concurrent callers of a singleton type
NThreads == 2

-----------------------------------------------------------------------------
(* The universe: qualifiers, classes, pre-existing objects *)

\* the default qualifier (Python None)
None == "None"
Names == {"name"}
Quals == {None} \cup Names

\* classes of the doctest, plus a singleton that declares a dependency
Classes ==
    {"Interface", "Implementation", "Dependent", "NamedDependent",
     "SomeSingleton", "SingletonDependent", "SingletonService"}

\* further client classes: Derived of the doctest, a class that injects
\* Derived, a subclass of SomeSingleton, and two classes that declare each
\* other as dependency
ExtClasses ==
    {"Derived", "DerivedDependent", "DerivedSingleton", "CycA", "CycB"}

AllClasses == Classes \cup ExtClasses

\* classes built by named(name, iface); the class name is '%s<%s>'
NamedClasses == {"Interface<name>"}

Callables == Classes \cup NamedClasses

\* interfaces used as registry keys
BindKeys == {"Interface"}

NoObj == [cls |-> "NoneType", id |-> 0, fields |-> <<>>]

\* objects that exist before any call: the string 'parameter' and the
\* Implementation object 'instance' of the doctest
ObjParameter == [cls |-> "str", id |-> -1, fields |-> <<>>]
ObjInstance == [cls |-> "Implementation", id |-> -2, fields |-> <<>>]
Values == {ObjParameter, ObjInstance}

-----------------------------------------------------------------------------
(* Class declarations *)

\* direct base class
Base(c) ==
    CASE c = "Implementation" -> "Interface"
      [] c = "Derived" -> "Dependent"
      [] c = "DerivedSingleton" -> "SomeSingleton"
      [] OTHER -> "object"

\* parameters of __init__, after self
Params(c) ==
    CASE c = "Dependent" -> <<"interface">>
      [] c = "NamedDependent" -> <<"interface">>
      [] c = "SingletonDependent" -> <<"singleton">>
      [] c = "SingletonService" -> <<"interface">>
      [] c = "Derived" -> <<"extra", "interface">>
      [] c = "DerivedDependent" -> <<"derived">>
      [] c = "CycA" -> <<"b">>
      [] c = "CycB" -> <<"a">>
      [] OTHER -> <<>>

\* the decorator applied to the class: "inject", "singleton" or "none"
Decorator(c) ==
    CASE c \in {"Dependent", "NamedDependent", "SingletonDependent",
                 "DerivedDependent", "CycA", "CycB"} -> "inject"
      [] c \in {"SomeSingleton", "SingletonService"} -> "singleton"
      [] OTHER -> "none"

\* the keyword arguments of the decorator: <<parameter, requirement>> pairs
DeclaredDeps(c) ==
    CASE c = "Dependent" -> << <<"interface", "Interface">> >>
      [] c = "NamedDependent" -> << <<"interface", "Interface<name>">> >>
      [] c = "SingletonDependent" -> << <<"singleton", "SomeSingleton">> >>
      [] c = "SingletonService" -> << <<"interface", "Interface">> >>
      [] c = "DerivedDependent" -> << <<"derived", "Derived">> >>
      [] c = "CycA" -> << <<"b", "CycB">> >>
      [] c = "CycB" -> << <<"a", "CycA">> >>
      [] OTHER -> <<>>

\* attributes of a class built by named()
NamedIface(n) == "Interface"
NamedName(n) == "name"

RECURSIVE issubclass(_, _)
issubclass(c, b) ==
    IF c = b THEN TRUE
    ELSE IF c \notin AllClasses THEN FALSE
    ELSE IF Base(c) = "object" THEN FALSE
    ELSE issubclass(Base(c), b)

Range(s) == {s[i] : i \in 1..Len(s)}

-----------------------------------------------------------------------------
(* Metaclasses.  A metaclass is represented by its __bases__ among the     *)
(* metaclasses of the module; its MRO is those bases followed by type.     *)

TypeMeta == <<>>

MetaMRO(meta) == IF "type" \in Range(meta) THEN meta ELSE Append(meta, "type")

\* _with_meta: extend the metaclass on the fly unless it already derives
\* from new_meta
with_meta(new_meta, meta) ==
    IF new_meta \in Range(MetaMRO(meta)) THEN meta
    ELSE <<new_meta>> \o meta

\* _inject / inject / singleton applied to the class statement
RECURSIVE TypeOf(_)
TypeOf(c) ==
    IF c \in NamedClasses THEN <<"Named">>
    ELSE LET pre == IF Base(c) = "object" THEN TypeMeta ELSE TypeOf(Base(c))
         IN  CASE Decorator(c) = "inject" -> with_meta("Injectable", pre)
               [] Decorator(c) = "singleton" -> with_meta("Singleton", pre)
               [] OTHER -> pre

\* __dependencies__ read from the class's own declaration only
Dependencies_own(c) == DeclaredDeps(c)

\* cls.__dependencies__, found through the class hierarchy
RECURSIVE Dependencies(_)
Dependencies(c) ==
    IF Decorator(c) # "none" THEN DeclaredDeps(c)
    ELSE IF Base(c) = "object" THEN <<>>
    ELSE Dependencies(Base(c))

\* a slot that always reads as empty
GetInstanceAttr_empty(c, inst) == NoObj

\* a slot read from the class itself only
GetInstanceAttr_own(c, inst) == inst[c]

\* getattr(cls, '__instance__', None), found through the class hierarchy
RECURSIVE GetInstanceAttr(_, _)
GetInstanceAttr(c, inst) ==
    IF inst[c] # NoObj THEN inst[c]
    ELSE IF Base(c) = "object" THEN NoObj
    ELSE GetInstanceAttr(Base(c), inst)

-----------------------------------------------------------------------------
(* Results and the log of one call *)

Event(ev, cls, name, args, kw, obj) ==
    [ev |-> ev, cls |-> cls, name |-> name, args |-> args, kw |-> kw,
     obj |-> obj]

Log(st, e) == [st EXCEPT !.log = Append(@, e)]

Ok(v, st) == [ok |-> TRUE, val |-> v, err |-> "", key |-> "", st |-> st]
Raise(e, k, st) == [ok |-> FALSE, val |-> NoObj, err |-> e, key |-> k, st |-> st]

\* kwargs[k] = v
SetItem(kw, k, v) ==
    [x \in DOMAIN kw \cup {k} |-> IF x = k THEN v ELSE kw[x]]

-----------------------------------------------------------------------------
(* type.__call__: bind the arguments to __init__ and build the object *)

TypeCall(cls, args, kwargs, st) ==
    LET params == Params(cls)
        n == Len(args)
        st1 == Log(st, Event("type_call", cls, "", args, kwargs, NoObj))
        positional == {params[i] : i \in 1..(IF n <= Len(params) THEN n ELSE 0)}
        index(p) == CHOOSE i \in 1..Len(params) : params[i] = p
    IN  IF n > Len(params) THEN Raise("TypeError", "", st1)
        ELSE IF DOMAIN kwargs \cap positional # {} THEN Raise("TypeError", "", st1)
        ELSE IF ~(DOMAIN kwargs \subseteq Range(params)) THEN Raise("TypeError", "", st1)
        ELSE IF ~(Range(params) \subseteq (positional \cup DOMAIN kwargs))
             THEN Raise("TypeError", "", st1)
        ELSE LET obj == [cls |-> cls, id |-> st1.next,
                         fields |-> [p \in Range(params) |->
                                       IF p \in positional THEN args[index(p)]
                                       ELSE kwargs[p]]]
                 st2 == [st1 EXCEPT !.next = @ + 1]
             IN  Ok(obj, Log(st2, Event("created", cls, "", <<>>, <<>>, obj)))

-----------------------------------------------------------------------------
(* Injector.get_instance and the metaclasses' __call__ *)

RECURSIVE MetaCall(_, _, _, _, _, _, _)
RECURSIVE get_instance(_, _, _, _)
RECURSIVE InjectLoop(_, _, _, _, _)
RECURSIVE InjectableCall(_, _, _, _, _, _, _)
RECURSIVE SingletonCall(_, _, _, _, _, _, _)
RECURSIVE NamedCall(_, _, _, _, _)

ClassProvider(c) == [kind |-> "class", cls |-> c, obj |-> NoObj]
InstanceProvider(o) == [kind |-> "instance", cls |-> "lambda", obj |-> o]

\* provider(): a bound class, a bound lambda: obj, or the requirement itself
CallProvider(p, st, depth) ==
    IF p.kind = "instance"
    THEN Ok(p.obj, Log(st, Event("provider", "lambda", "", <<>>, <<>>, p.obj)))
    ELSE MetaCall(MetaMRO(TypeOf(p.cls)), 1, p.cls, <<>>, <<>>,
                  Log(st, Event("provider", p.cls, "", <<>>, <<>>, NoObj)),
                  depth + 1)

\* get_instance that never looks at the bindings of the bucket
get_instance_unbound(iface_or_cls, name, st, depth) ==
    LET st1 == Log(st, Event("get_instance", iface_or_cls, name, <<>>, <<>>, NoObj))
    IN  IF depth > MaxDepth THEN Raise("RecursionError", "", st1)
        ELSE IF name \notin DOMAIN providers THEN Raise("KeyError", name, st1)
        ELSE CallProvider(ClassProvider(iface_or_cls), st1, depth)

\* get_instance that reads a missing bucket as an empty one
get_instance_lenient(iface_or_cls, name, st, depth) ==
    LET st1 == Log(st, Event("get_instance", iface_or_cls, name, <<>>, <<>>, NoObj))
    IN  IF depth > MaxDepth THEN Raise("RecursionError", "", st1)
        ELSE LET provider ==
                     IF name \in DOMAIN providers
                        /\ iface_or_cls \in DOMAIN providers[name]
                     THEN providers[name][iface_or_cls]
                     ELSE ClassProvider(iface_or_cls)
             IN  CallProvider(provider, st1, depth)

\* get_instance that falls back to the default bucket before the class
get_instance_fallback(iface_or_cls, name, st, depth) ==
    LET st1 == Log(st, Event("get_instance", iface_or_cls, name, <<>>, <<>>, NoObj))
    IN  IF depth > MaxDepth THEN Raise("RecursionError", "", st1)
        ELSE IF name \notin DOMAIN providers THEN Raise("KeyError", name, st1)
        ELSE LET provider ==
                     IF iface_or_cls \in DOMAIN providers[name]
                     THEN providers[name][iface_or_cls]
                     ELSE IF iface_or_cls \in DOMAIN providers[None]
                     THEN providers[None][iface_or_cls]
                     ELSE ClassProvider(iface_or_cls)
             IN  CallProvider(provider, st1, depth)

get_instance(iface_or_cls, name, st, depth) ==
    LET st1 == Log(st, Event("get_instance", iface_or_cls, name, <<>>, <<>>, NoObj))
    IN  IF depth > MaxDepth THEN Raise("RecursionError", "", st1)
        ELSE IF name \notin DOMAIN providers THEN Raise("KeyError", name, st1)
        ELSE LET provider ==
                     IF iface_or_cls \in DOMAIN providers[name]
                     THEN providers[name][iface_or_cls]
                     ELSE ClassProvider(iface_or_cls)
             IN  CallProvider(provider, st1, depth)

\* a loop that injects nothing
InjectLoop_none(deps, i, kwargs, st, depth) ==
    [ok |-> TRUE, kw |-> kwargs, res |-> Ok(NoObj, st)]

\* the loop without the test "if not k in kwargs"
InjectLoop_always(deps, i, kwargs, st, depth) ==
    IF i > Len(deps) THEN [ok |-> TRUE, kw |-> kwargs, res |-> Ok(NoObj, st)]
    ELSE LET r == get_instance(deps[i][2], None, st, depth)
         IN  IF ~r.ok THEN [ok |-> FALSE, kw |-> kwargs, res |-> r]
             ELSE InjectLoop(deps, i + 1, SetItem(kwargs, deps[i][1], r.val),
                             r.st, depth)

\* a loop that resolves dependencies at the top level only and passes None
\* below it
InjectLoop_shallow(deps, i, kwargs, st, depth) ==
    IF i > Len(deps) THEN [ok |-> TRUE, kw |-> kwargs, res |-> Ok(NoObj, st)]
    ELSE IF deps[i][1] \in DOMAIN kwargs
         THEN InjectLoop(deps, i + 1, kwargs, st, depth)
    ELSE IF depth > 0
         THEN InjectLoop(deps, i + 1, SetItem(kwargs, deps[i][1], NoObj), st, depth)
    ELSE LET r == get_instance(deps[i][2], None, st, depth)
         IN  IF ~r.ok THEN [ok |-> FALSE, kw |-> kwargs, res |-> r]
             ELSE InjectLoop(deps, i + 1, SetItem(kwargs, deps[i][1], r.val),
                             r.st, depth)

\* the loop of Injectable.__call__ over cls.__dependencies__.items()
InjectLoop(deps, i, kwargs, st, depth) ==
    IF i > Len(deps) THEN [ok |-> TRUE, kw |-> kwargs, res |-> Ok(NoObj, st)]
    ELSE IF deps[i][1] \in DOMAIN kwargs
         THEN InjectLoop(deps, i + 1, kwargs, st, depth)
    ELSE LET r == get_instance(deps[i][2], None, st, depth)
         IN  IF ~r.ok THEN [ok |-> FALSE, kw |-> kwargs, res |-> r]
             ELSE InjectLoop(deps, i + 1, SetItem(kwargs, deps[i][1], r.val),
                             r.st, depth)

\* Injectable.__call__ that goes on to the constructor when a lookup fails
InjectableCall_ignore(mro, i, cls, args, kwargs, st, depth) ==
    LET l == InjectLoop(Dependencies(cls), 1, kwargs, st, depth)
    IN  MetaCall(mro, i + 1, cls, args, l.kw, l.res.st, depth)

\* Injectable.__call__; super() continues at position i + 1 of the MRO
InjectableCall(mro, i, cls, args, kwargs, st, depth) ==
    LET l == InjectLoop(Dependencies(cls), 1, kwargs, st, depth)
    IN  IF ~l.ok THEN l.res
        ELSE MetaCall(mro, i + 1, cls, args, l.kw, l.res.st, depth)

\* Singleton.__call__ without the setattr
SingletonCall_forget(mro, i, cls, args, kwargs, st, depth) ==
    LET r == GetInstanceAttr(cls, st.inst)
    IN  IF r # NoObj THEN Ok(r, st)
        ELSE MetaCall(mro, i + 1, cls, args, kwargs, st, depth)

\* Singleton.__call__
SingletonCall(mro, i, cls, args, kwargs, st, depth) ==
    LET r == GetInstanceAttr(cls, st.inst)
    IN  IF r # NoObj THEN Ok(r, st)
        ELSE LET c == MetaCall(mro, i + 1, cls, args, kwargs, st, depth)
             IN  IF ~c.ok THEN c
                 ELSE Ok(c.val, [c.st EXCEPT !.inst[cls] = c.val])

\* Named.__call__ that drops name=cls.name
NamedCall_unqualified(cls, args, kwargs, st, depth) ==
    IF Len(args) > 0 \/ DOMAIN kwargs # {}
    THEN Raise("TypeError", "", st)
    ELSE get_instance(NamedIface(cls), None, st, depth)

\* Named.__call__(cls): takes no argument besides cls
NamedCall(cls, args, kwargs, st, depth) ==
    IF Len(args) > 0 \/ DOMAIN kwargs # {}
    THEN Raise("TypeError", "", st)
    ELSE get_instance(NamedIface(cls), NamedName(cls), st, depth)

\* type(cls).__call__(cls, *args, **kwargs), starting at position i of the
\* metaclass MRO
MetaCall(mro, i, cls, args, kwargs, st, depth) ==
    CASE mro[i] = "Injectable" -> InjectableCall(mro, i, cls, args, kwargs, st, depth)
      [] mro[i] = "Singleton" -> SingletonCall(mro, i, cls, args, kwargs, st, depth)
      [] mro[i] = "Named" -> NamedCall(cls, args, kwargs, st, depth)
      [] OTHER -> TypeCall(cls, args, kwargs, st)

\* cls(*args, **kwargs)
construct(cls, args, kwargs, st) ==
    MetaCall(MetaMRO(TypeOf(cls)), 1, cls, args, kwargs, st, 0)

-----------------------------------------------------------------------------
(* Injector.provide / provide_instance *)

\* a binding written to the default bucket whatever the name
Bind_default(prov, name, iface, p) ==
    [q \in DOMAIN prov |->
        IF q = None THEN SetItem(prov[None], iface, p) ELSE prov[q]]

\* a binding that keeps the provider already bound under the key
Bind_first(prov, name, iface, p) ==
    LET bucket == IF name \in DOMAIN prov THEN prov[name] ELSE <<>>
    IN  [q \in DOMAIN prov \cup {name} |->
            IF q # name THEN prov[q]
            ELSE IF iface \in DOMAIN bucket THEN bucket
            ELSE SetItem(bucket, iface, p)]

\* a binding that replaces the registry by the one bucket it writes
Bind_reset(prov, name, iface, p) ==
    [q \in {None, name} |->
        IF q = name THEN SetItem(<<>>, iface, p) ELSE <<>>]

\* self._providers.setdefault(name, {})[iface] = p
Bind(prov, name, iface, p) ==
    LET bucket == IF name \in DOMAIN prov THEN prov[name] ELSE <<>>
    IN  [q \in DOMAIN prov \cup {name} |->
            IF q = name THEN SetItem(bucket, iface, p) ELSE prov[q]]

\* provide that creates the bucket before it checks the class
provide_late_assert(prov, iface, cls, name) ==
    IF ~issubclass(cls, iface)
    THEN [ok |-> FALSE, err |-> "AssertionError",
          prov |-> [q \in DOMAIN prov \cup {name} |->
                       IF q \in DOMAIN prov THEN prov[q] ELSE <<>>]]
    ELSE [ok |-> TRUE, err |-> "", prov |-> Bind(prov, name, iface, ClassProvider(cls))]

provide(prov, iface, cls, name) ==
    IF ~issubclass(cls, iface)
    THEN [ok |-> FALSE, err |-> "AssertionError", prov |-> prov]
    ELSE [ok |-> TRUE, err |-> "", prov |-> Bind(prov, name, iface, ClassProvider(cls))]

\* provide_instance that checks the object against the interface
provide_instance_checked(prov, iface, obj, name) ==
    IF ~issubclass(obj.cls, iface)
    THEN [ok |-> FALSE, err |-> "AssertionError", prov |-> prov]
    ELSE [ok |-> TRUE, err |-> "", prov |-> Bind(prov, name, iface, InstanceProvider(obj))]

provide_instance(prov, iface, obj, name) ==
    [ok |-> TRUE, err |-> "", prov |-> Bind(prov, name, iface, InstanceProvider(obj))]

-----------------------------------------------------------------------------
(* The state machine *)

NoSlots == [c \in AllClasses |-> NoObj]

\* arguments a caller may pass to cls(...)
ArgSets == {<<>>, <<ObjParameter>>}
KwNames(c) == Range(Params(c)) \cup {Dependencies(c)[i][1] : i \in 1..Len(Dependencies(c))}
KwSets(c) == UNION {[S -> Values] : S \in SUBSET KwNames(c)}

\* no binding under a key
Unbound == [kind |-> "unbound", cls |-> "", obj |-> NoObj]

\* what the most recent call was, what it returned or raised, what it did
\* (log), the slots before it and the binding a registration replaced
Call(op, cls, arg, name, args, kw, r, log) ==
    [op |-> op, cls |-> cls, arg |-> arg, name |-> name, args |-> args,
     kw |-> kw, ok |-> r.ok, val |-> r.val, err |-> r.err, key |-> r.key,
     log |-> log, preInst |-> instance,
     prev |-> IF op \in {"provide", "provide_instance"}
                 /\ name \in DOMAIN providers /\ cls \in DOMAIN providers[name]
              THEN providers[name][cls] ELSE Unbound]

NoResult == [ok |-> TRUE, val |-> NoObj, err |-> "", key |-> ""]

Threads == 1..NThreads

\* a caller that has not called yet
Idle == [pc |-> "idle", cls |-> "", r |-> NoObj, built |-> FALSE, atomic |-> FALSE]

Init ==
    /\ providers = [q \in {None} |-> <<>>]
    /\ threads = [t \in Threads |-> Idle]
    /\ instance = NoSlots
    /\ last = [op |-> "init", cls |-> "", arg |-> ClassProvider(""), name |-> "",
               args |-> <<>>, kw |-> <<>>, ok |-> TRUE, val |-> NoObj,
               err |-> "", key |-> "", log |-> <<>>,
               preInst |-> NoSlots, prev |-> Unbound]

\* identities held by live objects: the singleton slots and their fields
LiveIds ==
    {0} \cup {instance[c].id : c \in AllClasses}
        \cup UNION {{instance[c].fields[f].id : f \in DOMAIN instance[c].fields} :
                    c \in AllClasses}

Max(S) == CHOOSE x \in S : \A y \in S : y <= x

\* a call starts with the current slots; a new object takes an identity
\* that no live object holds
Start == [inst |-> instance, next |-> Max(LiveIds) + 1, log |-> <<>>]

Provide(iface, cls, name) ==
    LET r == provide(providers, iface, cls, name)
    IN  /\ providers' = r.prov
        /\ last' = Call("provide", iface, ClassProvider(cls), name, <<>>, <<>>,
                        [NoResult EXCEPT !.ok = r.ok, !.err = r.err], <<>>)
        /\ UNCHANGED <<instance, threads>>

ProvideInstance(iface, obj, name) ==
    LET r == provide_instance(providers, iface, obj, name)
    IN  /\ providers' = r.prov
        /\ last' = Call("provide_instance", iface, InstanceProvider(obj), name,
                        <<>>, <<>>,
                        [NoResult EXCEPT !.ok = r.ok, !.err = r.err], <<>>)
        /\ UNCHANGED <<instance, threads>>

GetInstance(iface_or_cls, name) ==
    LET r == get_instance(iface_or_cls, name, Start, 0)
    IN  /\ instance' = r.st.inst
        /\ last' = Call("get_instance", iface_or_cls, ClassProvider(""), name,
                        <<>>, <<>>, r, r.st.log)
        /\ UNCHANGED <<providers, threads>>

Construct(cls, args, kwargs) ==
    LET r == construct(cls, args, kwargs, Start)
    IN  /\ instance' = r.st.inst
        /\ last' = Call("construct", cls, ClassProvider(""), "", args, kwargs,
                        r, r.st.log)
        /\ UNCHANGED <<providers, threads>>

Next ==
    \/ \E i \in BindKeys, c \in Classes, q \in Quals : Provide(i, c, q)
    \/ \E i \in BindKeys, o \in Values, q \in Quals : ProvideInstance(i, o, q)
    \/ \E c \in Callables, q \in Quals : GetInstance(c, q)
    \/ \E c \in Classes : \E a \in ArgSets, k \in KwSets(c) : Construct(c, a, k)

Spec == Init /\ [][Next]_vars

\* the same operations on the further classes: Derived, DerivedDependent,
\* DerivedSingleton, CycA and CycB, with the classes they build on
ExtProvided == {"Implementation", "Derived"}
ExtCalled == ExtClasses \cup {"SomeSingleton", "NamedDependent"}

NextExt ==
    \/ \E c \in ExtProvided, q \in Quals : Provide("Interface", c, q)
    \/ \E q \in Quals : ProvideInstance("Interface", ObjInstance, q)
    \/ \E c \in ExtCalled, q \in Quals : GetInstance(c, q)
    \/ \E c \in ExtCalled : \E a \in ArgSets, k \in KwSets(c) : Construct(c, a, k)

SpecExt == Init /\ [][NextExt]_vars

-----------------------------------------------------------------------------
(* Concurrent callers of a singleton type *)

\* Singleton.__call__ run by several callers at once. A caller either runs
\* the three steps of the method one at a time (the getattr, the
\* super().__call__, the setattr), other callers running in between, or runs
\* the whole call as one step, which is what a lock around it gives.
RaceClasses == {"SomeSingleton", "DerivedSingleton"}

\* identities held by the slots and by the callers' local variables
HeldIds == LiveIds \cup {threads[t].r.id : t \in Threads}

ThreadStart == [inst |-> instance, next |-> Max(HeldIds) + 1, log |-> <<>>]

\* if not getattr(cls, '__instance__', None):
TRead(t, c) ==
    /\ threads[t].pc = "idle"
    /\ LET r == GetInstanceAttr(c, instance)
       IN  threads' = [threads EXCEPT ![t] =
               [pc |-> IF r = NoObj THEN "create" ELSE "done", cls |-> c,
                r |-> r, built |-> FALSE, atomic |-> FALSE]]
    /\ UNCHANGED <<providers, instance, last>>

\* super().__call__(*args, **kwargs)
TCreate(t) ==
    /\ threads[t].pc = "create"
    /\ LET c == threads[t].cls
           r == MetaCall(MetaMRO(TypeOf(c)), 2, c, <<>>, <<>>, ThreadStart, 0)
       IN  threads' = [threads EXCEPT ![t] =
               [@ EXCEPT !.pc = IF r.ok THEN "store" ELSE "done",
                         !.r = r.val, !.built = r.ok]]
    /\ UNCHANGED <<providers, instance, last>>

\* setattr(cls, '__instance__', ...); return getattr(cls, '__instance__')
TStore(t) ==
    /\ threads[t].pc = "store"
    /\ instance' = [instance EXCEPT ![threads[t].cls] = threads[t].r]
    /\ threads' = [threads EXCEPT ![t].pc = "done"]
    /\ UNCHANGED <<providers, last>>

\* the whole of cls() with no other caller in between
TAtomic(t, c) ==
    /\ threads[t].pc = "idle"
    /\ LET r == construct(c, <<>>, <<>>, ThreadStart)
       IN  /\ instance' = r.st.inst
           /\ threads' = [threads EXCEPT ![t] =
                  [pc |-> "done", cls |-> c, r |-> r.val,
                   built |-> \E i \in 1..Len(r.st.log) :
                                r.st.log[i].ev = "created" /\ r.st.log[i].cls = c,
                   atomic |-> TRUE]]
    /\ UNCHANGED <<providers, last>>

NextThreads ==
    \/ \E t \in Threads, c \in RaceClasses : TRead(t, c)
    \/ \E t \in Threads : TCreate(t)
    \/ \E t \in Threads : TStore(t)
    \/ \E t \in Threads, c \in RaceClasses : TAtomic(t, c)

SpecThreads == Init /\ [][NextThreads]_vars

\* a registry with two keys, so that a bucket can exist without a binding
\* for the interface that is looked up in it
RegKeys == {"Interface", "Implementation"}
BucketCalled == RegKeys \cup {"Dependent"}

NextBuckets ==
    \/ \E i \in RegKeys, q \in Quals : Provide(i, "Implementation", q)
    \/ \E i \in RegKeys, q \in Quals : ProvideInstance(i, ObjInstance, q)
    \/ \E c \in BucketCalled, q \in Quals : GetInstance(c, q)

SpecBuckets == Init /\ [][NextBuckets]_vars

TypeOK ==
    /\ DOMAIN providers \subseteq Quals
    /\ None \in DOMAIN providers
    /\ \A c \in AllClasses : instance[c] = NoObj \/ instance[c].cls = c
-----------------------------------------------------------------------------
(* Reading the record of the most recent call *)

LogIdx == 1..Len(last.log)
IsEvent(i, ev, cls) == last.log[i].ev = ev /\ last.log[i].cls = cls

\* the requirement declared for parameter d of class c
DeclaredNames(c) == {Dependencies(c)[i][1] : i \in 1..Len(Dependencies(c))}
Requirement(c, d) ==
    Dependencies(c)[CHOOSE i \in 1..Len(Dependencies(c)) : Dependencies(c)[i][1] = d][2]

\* classes whose instantiation goes through Injectable.__call__ / Singleton.__call__
InjectTypes == {c \in Classes : MetaMRO(TypeOf(c))[1] = "Injectable"}
SingletonTypes == {c \in Classes : MetaMRO(TypeOf(c))[1] = "Singleton"}

\* object o was built during the most recent call, by the constructor of c
CreatedBy(o, c) == \E i \in LogIdx : IsEvent(i, "created", c) /\ last.log[i].obj = o

-----------------------------------------------------------------------------
(* Properties *)

\* C1: for a type T declared with inject(d=I) and a binding I -> C in the
\* default bucket, T(...) called without keyword d looks I up, invokes the
\* provider C, and passes what it returned as keyword d to T's constructor;
\* called with no argument at all the call succeeds and the new T's d field
\* is an instance of C built by that provider call.
C1_Injection ==
    \A T \in InjectTypes : \A d \in DeclaredNames(T) :
        LET I == Requirement(T, d)
        IN  ( /\ last.op = "construct" /\ last.cls = T
              /\ d \notin DOMAIN last.kw
              /\ I \in DOMAIN providers[None]
              /\ providers[None][I].kind = "class" )
            => LET C == providers[None][I].cls
               IN  \E i, j, k \in LogIdx :
                      /\ i < j /\ j < k
                      /\ IsEvent(i, "get_instance", I) /\ last.log[i].name = None
                      /\ IsEvent(i + 1, "provider", C)
                      /\ IsEvent(j, "created", C)
                      /\ IsEvent(k, "type_call", T)
                      /\ d \in DOMAIN last.log[k].kw
                      /\ last.log[k].kw[d] = last.log[j].obj
                      /\ last.log[j].obj.cls = C
                      /\ (last.args = <<>> =>
                            /\ last.ok
                            /\ last.val.cls = T
                            /\ last.val.fields[d] = last.log[j].obj)

C1_Witness ==
    /\ last.op = "construct" /\ last.cls = "Dependent"
    /\ last.args = <<>> /\ last.kw = <<>>
    /\ "Interface" \in DOMAIN providers[None]
    /\ providers[None]["Interface"] = ClassProvider("Implementation")
    /\ last.ok /\ last.val.fields["interface"].cls = "Implementation"

\* C2 as stated: for every type T declaring dependency d, T(d=x) yields a d
\* field identical to x and the registry is not consulted for d.
C2_Original ==
    \A T \in Classes : \A d \in DeclaredNames(T) :
        ( /\ last.op = "construct" /\ last.cls = T
          /\ d \in DOMAIN last.kw /\ last.ok )
        => /\ last.val.fields[d] = last.kw[d]
           /\ ~\E i \in LogIdx : IsEvent(i, "get_instance", Requirement(T, d))

\* C2 amended: for a type T declaring dependency d that is not an already
\* initialized singleton, T(d=x) does not consult the registry for d, hands
\* x to T's constructor as d, and (the other parameters being supplied) yields
\* an instance whose d field is identical to x, whatever the registry binds;
\* an initialized singleton returns its memoized instance and ignores x.
C2_Override ==
    \A T \in Classes : \A d \in DeclaredNames(T) :
        ( /\ last.op = "construct" /\ last.cls = T
          /\ d \in DOMAIN last.kw )
        => /\ ~\E i \in LogIdx : IsEvent(i, "get_instance", Requirement(T, d))
           /\ IF GetInstanceAttr(T, last.preInst) = NoObj
              THEN /\ \E k \in LogIdx :
                         /\ IsEvent(k, "type_call", T)
                         /\ last.log[k].kw[d] = last.kw[d]
                   /\ last.ok => last.val.fields[d] = last.kw[d]
                   /\ (last.args = <<>> /\ DOMAIN last.kw = Range(Params(T)))
                         => last.ok
              ELSE last.ok /\ last.val = GetInstanceAttr(T, last.preInst)

C2_Witness ==
    /\ last.op = "construct" /\ last.cls = "Dependent"
    /\ last.kw = [k \in {"interface"} |-> ObjParameter]
    /\ "Interface" \in DOMAIN providers[None]
    /\ last.ok /\ last.val.fields["interface"] = ObjParameter

\* C3: once the slot of a singleton type S holds an instance it never changes
\* again, and every later S(any arguments) returns that very instance without
\* running S's constructor or any registry lookup or provider.
C3_SingletonMemo ==
    [][\A S \in SingletonTypes :
          instance[S] # NoObj =>
             /\ instance'[S] = instance[S]
             /\ ~\E i \in 1..Len(last'.log) :
                    /\ last'.log[i].ev \in {"type_call", "created"}
                    /\ last'.log[i].cls = S
             /\ (last'.op = "construct" /\ last'.cls = S) =>
                    /\ last'.ok
                    /\ last'.val = instance[S]
                    /\ last'.log = <<>>]_vars

C3_Witness ==
    /\ last.op = "construct" /\ last.cls = "SomeSingleton"
    /\ last.preInst["SomeSingleton"] # NoObj
    /\ last.args = <<ObjParameter>>
    /\ last.ok /\ last.val = instance["SomeSingleton"]
\* C4: for a type S declared with singleton(d=I) and a binding I -> C, the
\* first S() that does not supply d resolves d through the registry and
\* passes the result to S's constructor, as for a type declared with inject.
C4_SingletonInjection ==
    \A S \in SingletonTypes : \A d \in DeclaredNames(S) :
        ( /\ last.op = "construct" /\ last.cls = S
          /\ GetInstanceAttr(S, last.preInst) = NoObj
          /\ last.args = <<>> /\ d \notin DOMAIN last.kw
          /\ Requirement(S, d) \in DOMAIN providers[None] )
        => /\ \E i \in LogIdx : IsEvent(i, "get_instance", Requirement(S, d))
           /\ \E k \in LogIdx : /\ IsEvent(k, "type_call", S)
                                /\ d \in DOMAIN last.log[k].kw
           /\ last.ok

Registration(l) == l.op \in {"provide", "provide_instance"}

\* C5: with I bound to class A in the default bucket and to the object b
\* under qualifier n, get_instance(I) returns an instance built by A in that
\* call and get_instance(I, n) returns b itself; and a registration under one
\* qualifier leaves the bucket of every other qualifier as it was.
C5_NamedIsolated ==
    /\ [](\A I \in BindKeys : \A n \in Names :
            ( /\ I \in DOMAIN providers[None]
              /\ providers[None][I].kind = "class"
              /\ n \in DOMAIN providers
              /\ I \in DOMAIN providers[n]
              /\ providers[n][I].kind = "instance"
              /\ last.op = "get_instance" /\ last.cls = I )
            => /\ last.ok
               /\ last.name = None =>
                     /\ last.val.cls = providers[None][I].cls
                     /\ CreatedBy(last.val, providers[None][I].cls)
               /\ last.name = n => last.val = providers[n][I].obj)
    /\ [][Registration(last') =>
            \A q \in DOMAIN providers :
               q # last'.name => /\ q \in DOMAIN providers'
                                 /\ providers'[q] = providers[q]]_vars

C5_Witness ==
    /\ last.op = "get_instance" /\ last.cls = "Interface" /\ last.name = "name"
    /\ "Interface" \in DOMAIN providers[None]
    /\ providers[None]["Interface"] = ClassProvider("Implementation")
    /\ "name" \in DOMAIN providers
    /\ providers["name"]["Interface"] = InstanceProvider(ObjInstance)
    /\ last.ok /\ last.val = ObjInstance

\* C6: when T declares d as named(N, X) and the caller does not pass keyword
\* d, T(...) looks X up under qualifier N and never under the default
\* qualifier: d receives what bucket N gives for X (the bound object, an
\* instance of the bound class, or X() when N holds no binding of X), whatever
\* the default bucket binds X to, and the call raises KeyError(N) when no
\* bucket N exists.
C6_QualifiedRequirement ==
    \A T \in InjectTypes : \A d \in DeclaredNames(T) :
        LET R == Requirement(T, d)
            X == NamedIface(R)
            N == NamedName(R)
        IN  ( /\ R \in NamedClasses
              /\ last.op = "construct" /\ last.cls = T
              /\ d \notin DOMAIN last.kw )
            => /\ \E i \in LogIdx : IsEvent(i, "get_instance", X) /\ last.log[i].name = N
               /\ ~\E i \in LogIdx : IsEvent(i, "get_instance", X) /\ last.log[i].name = None
               /\ IF N \notin DOMAIN providers
                  THEN ~last.ok /\ last.err = "KeyError" /\ last.key = N
                  ELSE \E k \in LogIdx :
                         /\ IsEvent(k, "type_call", T)
                         /\ d \in DOMAIN last.log[k].kw
                         /\ LET v == last.log[k].kw[d]
                                p == IF X \in DOMAIN providers[N]
                                     THEN providers[N][X] ELSE ClassProvider(X)
                            IN  /\ p.kind = "instance" => v = p.obj
                                /\ p.kind = "class" => v.cls = p.cls /\ CreatedBy(v, p.cls)
                                /\ last.args = <<>> =>
                                      /\ last.ok
                                      /\ last.val.fields[d] = v

C6_Witness ==
    /\ last.op = "construct" /\ last.cls = "NamedDependent"
    /\ last.args = <<>> /\ last.kw = <<>>
    /\ "Interface" \in DOMAIN providers[None]
    /\ providers[None]["Interface"] = ClassProvider("Implementation")
    /\ "name" \in DOMAIN providers
    /\ providers["name"]["Interface"] = InstanceProvider(ObjInstance)
    /\ last.ok /\ last.val.fields["interface"] = ObjInstance

\* C7: for a class K with no binding under the looked-up qualifier (and whose
\* named requirements have their buckets), get_instance(K) succeeds and
\* returns a K instance that carries K's declared dependencies; when K is an
\* initialized singleton it is K's memoized instance.
C7_SelfFallback ==
    \A K \in Classes :
        ( /\ last.op = "get_instance" /\ last.cls = K
          /\ last.name \in DOMAIN providers
          /\ K \notin DOMAIN providers[last.name]
          /\ \A d \in DeclaredNames(K) :
                Requirement(K, d) \in NamedClasses
                   => NamedName(Requirement(K, d)) \in DOMAIN providers )
        => /\ last.ok
           /\ last.val.cls = K
           /\ IsEvent(2, "provider", K)
           /\ \A d \in DeclaredNames(K) : d \in DOMAIN last.val.fields
           /\ GetInstanceAttr(K, last.preInst) # NoObj
                 => last.val = GetInstanceAttr(K, last.preInst)

\* C8 as stated: get_instance(I, name=q) raises a LookupError exactly when
\* no registration under q has succeeded (DOMAIN providers holds the default
\* qualifier and the qualifiers registered so far).
C8_Original ==
    last.op = "get_instance"
       => ((~last.ok /\ last.err = "KeyError") <=> last.name \notin DOMAIN providers)

\* C8 amended: get_instance(I, name=q) raises the LookupError for q itself,
\* KeyError(q), exactly when no provide / provide_instance call with name=q
\* has succeeded so far; the default bucket exists from creation, so a lookup
\* under None never raises KeyError(None); a bucket appears with the first
\* successful registration under its qualifier and in no other way.  (A
\* KeyError for another qualifier can still come out of a named requirement
\* of the class being built.)
C8_UnknownQualifier ==
    /\ DOMAIN providers = {None}
    /\ [](/\ None \in DOMAIN providers
          /\ last.op = "get_instance" =>
                ((~last.ok /\ last.err = "KeyError" /\ last.key = last.name)
                    <=> last.name \notin DOMAIN providers))
    /\ [][DOMAIN providers' =
             DOMAIN providers \cup
                (IF Registration(last') /\ last'.ok THEN {last'.name} ELSE {})]_vars

C8_Witness ==
    /\ last.op = "get_instance" /\ last.cls = "Interface" /\ last.name = "name"
    /\ "name" \notin DOMAIN providers
    /\ ~last.ok /\ last.err = "KeyError" /\ last.key = "name"

\* C9: provide(I, X, name=q) with X not a subclass of I raises
\* AssertionError and leaves the registry as it was: every binding is kept
\* and no bucket q is created.
C9_ContractCheck ==
    [][(last'.op = "provide" /\ ~issubclass(last'.arg.cls, last'.cls))
          => /\ ~last'.ok
             /\ last'.err = "AssertionError"
             /\ providers' = providers]_vars

C9_Witness ==
    /\ last.op = "provide" /\ last.cls = "Interface"
    /\ last.arg = ClassProvider("SomeSingleton") /\ last.name = "name"
    /\ ~last.ok /\ last.err = "AssertionError"
    /\ "name" \notin DOMAIN providers

\* the registration described by l rebinds key (q, i)
Rebinds(l, q, i) == Registration(l) /\ l.ok /\ l.name = q /\ l.cls = i

\* C10: a provide with a conforming class, and every provide_instance,
\* succeeds whether or not the key was bound and leaves the key bound to the
\* provider it was given; a binding changes in no other way; and
\* get_instance(I, q) calls the provider currently bound under (q, I).
C10_LastWriteWins ==
    /\ [][(Registration(last')
             /\ (last'.op = "provide" => issubclass(last'.arg.cls, last'.cls)))
          => /\ last'.ok
             /\ last'.name \in DOMAIN providers'
             /\ last'.cls \in DOMAIN providers'[last'.name]
             /\ providers'[last'.name][last'.cls] = last'.arg]_vars
    /\ [][\A q \in DOMAIN providers : \A i \in DOMAIN providers[q] :
             ~Rebinds(last', q, i) =>
                /\ q \in DOMAIN providers'
                /\ i \in DOMAIN providers'[q]
                /\ providers'[q][i] = providers[q][i]]_vars
    /\ []((/\ last.op = "get_instance"
           /\ last.name \in DOMAIN providers
           /\ last.cls \in DOMAIN providers[last.name])
          => LET p == providers[last.name][last.cls]
             IN  /\ IsEvent(2, "provider", p.cls)
                 /\ last.ok
                 /\ p.kind = "instance" => last.val = p.obj
                 /\ p.kind = "class" => last.val.cls = p.cls)

C10_Witness ==
    /\ last.op = "provide" /\ last.ok
    /\ last.prev.kind = "instance"
    /\ providers[last.name][last.cls] = last.arg
    /\ last.arg.kind = "class"
-----------------------------------------------------------------------------
(* Properties of inheritance, positional arguments and failures *)

\* subtypes that declare nothing themselves and derive from an injected type
InheritingTypes ==
    {c \in AllClasses : /\ Decorator(c) = "none"
                        /\ Base(c) # "object"
                        /\ Decorator(Base(c)) = "inject"}

\* parameter p of c is among the first n, the ones bound positionally
Positional(c, p, n) == \E i \in 1..Len(Params(c)) : Params(c)[i] = p /\ i <= n

\* the most recent call passes every parameter of c but d exactly once,
\* positionally or by keyword, and nothing else
SuppliesOthers(c, d) ==
    /\ Len(last.args) <= Len(Params(c))
    /\ DOMAIN last.kw \subseteq Range(Params(c))
    /\ \A x \in Range(Params(c)) \ {d} :
          (x \in DOMAIN last.kw) # Positional(c, x, Len(last.args))

\* what the bucket of qualifier q gives for requirement I
BoundOrSelf(q, I) ==
    IF I \in DOMAIN providers[q] THEN providers[q][I] ELSE ClassProvider(I)

\* C11: a subtype D of an injected type T that declares no dependency itself
\* is intercepted with T's declaration: D(...) called without T's declared
\* parameter d looks d's requirement up in the registry and passes the result
\* as keyword d to D's constructor; with D's other parameters supplied the
\* call succeeds and the instance carries the resolved value.
C11_Inheritance ==
    \A D \in InheritingTypes : \A d \in DeclaredNames(Base(D)) :
        LET I == Requirement(Base(D), d)
            p == BoundOrSelf(None, I)
        IN  ( /\ last.op = "construct" /\ last.cls = D
              /\ d \notin DOMAIN last.kw
              /\ ~Positional(D, d, Len(last.args)) )
            => \E i, k \in LogIdx :
                  /\ i < k
                  /\ IsEvent(i, "get_instance", I) /\ last.log[i].name = None
                  /\ IsEvent(i + 1, "provider", p.cls)
                  /\ IsEvent(k, "type_call", D)
                  /\ d \in DOMAIN last.log[k].kw
                  /\ LET v == last.log[k].kw[d]
                     IN  /\ p.kind = "instance" => v = p.obj
                         /\ p.kind = "class" => v.cls = p.cls /\ CreatedBy(v, p.cls)
                         /\ SuppliesOthers(D, d) => /\ last.ok
                               /\ last.val.cls = D
                               /\ last.val.fields[d] = v

C11_Witness ==
    /\ last.op = "construct" /\ last.cls = "Derived"
    /\ last.args = <<ObjParameter>> /\ last.kw = <<>>
    /\ "Interface" \in DOMAIN providers[None]
    /\ providers[None]["Interface"] = ClassProvider("Implementation")
    /\ last.ok
    /\ last.val.fields["extra"] = ObjParameter
    /\ last.val.fields["interface"].cls = "Implementation"
\* the argument the caller passed positionally for parameter p of c
PositionalValue(c, p) ==
    last.args[CHOOSE i \in 1..Len(Params(c)) : Params(c)[i] = p]

\* C12 as stated: when the caller passes a declared dependency d of T
\* positionally, T(x) bypasses injection: d is not resolved from the
\* registry, no keyword d is added, T's constructor receives x as d and the
\* construction succeeds.
C12_Original ==
    \A T \in InjectTypes : \A d \in DeclaredNames(T) :
        ( /\ last.op = "construct" /\ last.cls = T
          /\ Positional(T, d, Len(last.args)) /\ d \notin DOMAIN last.kw )
        => /\ ~\E i \in LogIdx : IsEvent(i, "get_instance", Requirement(T, d))
           /\ \E k \in LogIdx : /\ IsEvent(k, "type_call", T)
                                /\ d \notin DOMAIN last.log[k].kw
           /\ last.ok
           /\ last.val.fields[d] = PositionalValue(T, d)

\* C12 amended: passing a declared dependency d of T positionally does not
\* bypass injection: d is still resolved from the registry and, when that
\* succeeds, added as keyword d next to the positional x, so T's constructor
\* is called with d twice and the call raises TypeError; no instance of T is
\* built.  (Only a keyword argument keeps injection away.)
C12_PositionalClash ==
    \A T \in InjectTypes : \A d \in DeclaredNames(T) :
        ( /\ last.op = "construct" /\ last.cls = T
          /\ Positional(T, d, Len(last.args)) /\ d \notin DOMAIN last.kw )
        => /\ IsEvent(1, "get_instance", Requirement(T, d))
           /\ ~last.ok
           /\ ~\E i \in LogIdx : IsEvent(i, "created", T)
           /\ \/ \E k \in LogIdx :
                    /\ IsEvent(k, "type_call", T)
                    /\ last.log[k].args = last.args
                    /\ d \in DOMAIN last.log[k].kw
                    /\ last.err = "TypeError"
              \/ /\ ~\E k \in LogIdx : IsEvent(k, "type_call", T)
                 /\ last.err = "KeyError"

C12_Witness ==
    /\ last.op = "construct" /\ last.cls = "Dependent"
    /\ last.args = <<ObjParameter>> /\ last.kw = <<>>
    /\ ~last.ok /\ last.err = "TypeError"
    /\ \E k \in LogIdx : /\ IsEvent(k, "type_call", "Dependent")
                         /\ "interface" \in DOMAIN last.log[k].kw
\* C13: provide_instance(I, obj, name=q) never raises, also for an obj whose
\* class does not derive from I, and binds (q, I) to obj; while (q, I) is
\* bound to obj every get_instance(I, q) returns obj itself and builds
\* nothing.
C13_InstanceUnchecked ==
    /\ [][last'.op = "provide_instance" =>
             /\ last'.ok
             /\ last'.name \in DOMAIN providers'
             /\ last'.cls \in DOMAIN providers'[last'.name]
             /\ providers'[last'.name][last'.cls] = InstanceProvider(last'.arg.obj)]_vars
    /\ []((/\ last.op = "get_instance"
           /\ last.name \in DOMAIN providers
           /\ last.cls \in DOMAIN providers[last.name]
           /\ providers[last.name][last.cls].kind = "instance")
          => /\ last.ok
             /\ last.val = providers[last.name][last.cls].obj
             /\ ~\E i \in LogIdx : last.log[i].ev \in {"type_call", "created"})

C13_Witness ==
    /\ last.op = "get_instance" /\ last.cls = "Interface" /\ last.name = "name"
    /\ "name" \in DOMAIN providers
    /\ providers["name"]["Interface"] = InstanceProvider(ObjParameter)
    /\ ~issubclass(ObjParameter.cls, "Interface")
    /\ last.ok /\ last.val = ObjParameter
\* every class whose instantiation goes through Injectable.__call__
AllInjectTypes == {c \in AllClasses : MetaMRO(TypeOf(c))[1] = "Injectable"}

\* get_instance(req) as it goes from the slots the most recent call found
ResolveBefore(req) ==
    get_instance(req, None, [inst |-> last.preInst, next |-> 1, log |-> <<>>], 0)

\* the qualifier of named requirement req has no bucket
UnknownQualifier(req) ==
    req \in NamedClasses /\ NamedName(req) \notin DOMAIN providers

\* req is an unbound class that cannot be called without arguments: some
\* parameter of its __init__ is neither passed nor injected
NeedsArguments(req) ==
    /\ req \in AllClasses
    /\ req \notin DOMAIN providers[None]
    /\ GetInstanceAttr(req, last.preInst) = NoObj
    /\ \E x \in Range(Params(req)) :
          req \in AllInjectTypes => x \notin DeclaredNames(req)

\* C14: if resolving a declared, unsupplied dependency d of T fails (the
\* qualifier of a named requirement is unknown: KeyError; the fallback target
\* cannot be called without arguments: TypeError; or any other failure of the
\* lookup), T(...) fails with that very error and T's constructor is never
\* invoked.
C14_ResolutionFailure ==
    \A T \in AllInjectTypes : \A d \in DeclaredNames(T) :
        LET req == Requirement(T, d)
        IN  ( /\ last.op = "construct" /\ last.cls = T
              /\ d \notin DOMAIN last.kw
              /\ \/ UnknownQualifier(req)
                 \/ NeedsArguments(req)
                 \/ ~ResolveBefore(req).ok )
            => /\ ~last.ok
               /\ last.err = ResolveBefore(req).err
               /\ last.key = ResolveBefore(req).key
               /\ UnknownQualifier(req) =>
                     last.err = "KeyError" /\ last.key = NamedName(req)
               /\ NeedsArguments(req) => last.err = "TypeError"
               /\ ~\E i \in LogIdx : /\ last.log[i].ev \in {"type_call", "created"}
                                     /\ last.log[i].cls = T

C14_Witness ==
    /\ last.op = "construct" /\ last.cls = "DerivedDependent"
    /\ last.args = <<>> /\ last.kw = <<>>
    /\ ~last.ok /\ last.err = "TypeError"
    /\ \E i \in LogIdx : IsEvent(i, "type_call", "Derived")
    /\ ~\E i \in LogIdx : IsEvent(i, "type_call", "DerivedDependent")
\* C15 as stated: after a failed T(...) the registry and every singleton slot
\* are as before the call, including the slots of singleton types resolved as
\* dependencies earlier in the same call.
C15_Original ==
    (last.op = "construct" /\ ~last.ok) => instance = last.preInst

\* C15 amended: a failed T(...) builds no instance of T and leaves the
\* registry and T's own slot as they were; the slot of another singleton type
\* changes only from empty to an instance built while the failed call was
\* resolving its dependencies, and such a slot is not rolled back.
C15_FailedConstruct ==
    [][(last'.op = "construct" /\ ~last'.ok)
       => /\ providers' = providers
          /\ last'.val = NoObj
          /\ ~\E i \in 1..Len(last'.log) :
                 last'.log[i].ev = "created" /\ last'.log[i].cls = last'.cls
          /\ instance'[last'.cls] = instance[last'.cls]
          /\ \A c \in AllClasses :
                instance'[c] # instance[c]
                   => /\ instance[c] = NoObj
                      /\ \E i \in 1..Len(last'.log) :
                            /\ last'.log[i].ev = "created"
                            /\ last'.log[i].cls = c
                            /\ last'.log[i].obj = instance'[c]]_vars

C15_Witness ==
    /\ last.op = "construct" /\ last.cls = "SingletonDependent"
    /\ last.args = <<ObjParameter>> /\ last.kw = <<>>
    /\ ~last.ok /\ last.err = "TypeError"
    /\ last.preInst["SomeSingleton"] = NoObj
    /\ instance["SomeSingleton"] # NoObj
-----------------------------------------------------------------------------
(* Properties of the registry as a whole *)

\* the keys (qualifier, interface) that hold a binding
BoundKeys(prov) ==
    {k \in Quals \X BindKeys : k[1] \in DOMAIN prov /\ k[2] \in DOMAIN prov[k[1]]}

\* C16: the registry is changed only by registration calls and is never
\* pruned: a get_instance or a construct, successful or failing, leaves the
\* buckets and the bindings as they were, a failed registration too, and
\* every bucket and every bound key of a state is there in the next state.
C16_RegistryFrame ==
    [][/\ (~Registration(last') \/ ~last'.ok) => providers' = providers
       /\ DOMAIN providers \subseteq DOMAIN providers'
       /\ BoundKeys(providers) \subseteq BoundKeys(providers')
       /\ None \in DOMAIN providers']_vars

\* a lookup under an unknown qualifier failed while the registry held a
\* binding in the default bucket, and added no bucket
C16_Witness ==
    /\ last.op = "get_instance" /\ last.name = "name"
    /\ ~last.ok /\ last.err = "KeyError"
    /\ "name" \notin DOMAIN providers
    /\ <<None, "Interface">> \in BoundKeys(providers)
-----------------------------------------------------------------------------
(* Properties of concurrent singleton construction *)

\* the callers of type c, and those of them that ran c's constructor
CallersOf(c) == {t \in Threads : threads[t].pc # "idle" /\ threads[t].cls = c}
BuildersOf(c) == {t \in CallersOf(c) : threads[t].built}

\* C17: when every caller of a singleton type runs the check and the set of
\* its slot as one step, the type's constructor runs at most once and all
\* the callers that returned hold the same instance. Without that, two
\* callers can both read the empty slot, both run the constructor and
\* return different instances (C17_Witness).
C17_AtomicOnce ==
    \A c \in RaceClasses :
        (\A t \in CallersOf(c) : threads[t].atomic)
            => /\ Cardinality(BuildersOf(c)) <= 1
               /\ \A t, u \in CallersOf(c) : threads[t].r = threads[u].r

C17_Witness ==
    \E t, u \in Threads :
        /\ t # u
        /\ threads[t].pc = "done" /\ threads[u].pc = "done"
        /\ threads[t].cls = "SomeSingleton" /\ threads[u].cls = "SomeSingleton"
        /\ ~threads[t].atomic /\ ~threads[u].atomic
        /\ threads[t].built /\ threads[u].built
        /\ threads[t].r # threads[u].r
        /\ threads[t].r # NoObj /\ threads[u].r # NoObj
        /\ instance["SomeSingleton"] \in {threads[t].r, threads[u].r}
-----------------------------------------------------------------------------
(* Properties of qualified lookup *)

\* C18: a lookup of I under a qualifier q whose bucket exists and holds no
\* binding for I calls I itself, whatever I is bound to in the default bucket
\* or in another bucket: the provider that is called is the class I, and for
\* a class that needs no argument the result is an instance of I built by
\* this call.
C18_NoDefaultFallback ==
    \A I \in BucketCalled :
        ( /\ last.op = "get_instance" /\ last.cls = I
          /\ last.name \in DOMAIN providers
          /\ I \notin DOMAIN providers[last.name] )
        => /\ IsEvent(2, "provider", I)
           /\ IsEvent(3, "type_call", I) \/ Decorator(I) # "none"
           /\ last.ok => last.val.cls = I /\ CreatedBy(last.val, I)
           /\ I \in RegKeys => last.ok

C18_Witness ==
    /\ last.op = "get_instance" /\ last.cls = "Interface" /\ last.name = "name"
    /\ "name" \in DOMAIN providers
    /\ "Interface" \notin DOMAIN providers["name"]
    /\ "Interface" \in DOMAIN providers[None]
    /\ providers[None]["Interface"] = InstanceProvider(ObjInstance)
    /\ last.ok /\ last.val.cls = "Interface" /\ last.val # ObjInstance
-----------------------------------------------------------------------------
(* Properties of singleton subtypes and of termination *)

\* a singleton type D with its singleton base type S
SingletonPairs ==
    {p \in AllClasses \X AllClasses :
        /\ Base(p[1]) = p[2]
        /\ "Singleton" \in Range(TypeOf(p[1]))
        /\ "Singleton" \in Range(TypeOf(p[2]))}

\* C19: the slot of a singleton type is found through inheritance. With S
\* initialized and its subtype D not constructed yet, D(...) returns S's
\* memoized instance, runs no constructor and leaves D's own slot empty;
\* with neither constructed, D() builds a D, stores it in D's own slot and
\* leaves S uninitialized. What D() returns depends on which was first.
C19_InheritedSlot ==
    \A p \in SingletonPairs :
        LET D == p[1]
            S == p[2]
        IN  (last.op = "construct" /\ last.cls = D /\ last.preInst[D] = NoObj)
            => /\ last.preInst[S] # NoObj
                  => /\ last.ok /\ last.val = last.preInst[S]
                     /\ last.val.cls = S
                     /\ ~\E i \in LogIdx : last.log[i].ev \in {"type_call", "created"}
                     /\ instance = last.preInst
               /\ (last.preInst[S] = NoObj /\ last.args = <<>> /\ last.kw = <<>>)
                  => /\ last.ok /\ last.val.cls = D
                     /\ CreatedBy(last.val, D)
                     /\ instance[D] = last.val
                     /\ instance[S] = NoObj

\* D() after S(): the caller of DerivedSingleton holds a SomeSingleton
C19_Witness ==
    /\ last.op = "construct" /\ last.cls = "DerivedSingleton"
    /\ last.ok /\ last.val.cls = "SomeSingleton"
    /\ last.val = instance["SomeSingleton"]
    /\ instance["DerivedSingleton"] = NoObj

\* D() before S(): both slots end up set, with different instances
C19_DerivedFirst ==
    /\ instance["DerivedSingleton"] # NoObj
    /\ instance["DerivedSingleton"].cls = "DerivedSingleton"
    /\ instance["SomeSingleton"] # NoObj
    /\ instance["SomeSingleton"] # instance["DerivedSingleton"]
\* the class that a lookup of requirement req under qualifier q calls; ""
\* when the lookup calls no class (an instance binding, an unknown qualifier)
Target(req, q) ==
    LET I == IF req \in NamedClasses THEN NamedIface(req) ELSE req
        n == IF req \in NamedClasses THEN NamedName(req) ELSE q
    IN  IF n \notin DOMAIN providers THEN ""
        ELSE IF BoundOrSelf(n, I).kind = "class" THEN BoundOrSelf(n, I).cls
        ELSE ""

\* the classes that c(), called without arguments, calls for its dependencies
Successors(c) ==
    IF c \in AllInjectTypes
    THEN {Target(Requirement(c, d), None) : d \in DeclaredNames(c)} \ {""}
    ELSE {}

\* the classes reached from those of S in at most n steps
RECURSIVE ReachFrom(_, _)
ReachFrom(S, n) ==
    IF n = 0 THEN S
    ELSE ReachFrom(S \cup UNION {Successors(c) : c \in S}, n - 1)

Reachable(S) == ReachFrom(S, Cardinality(AllClasses))
ReachesCycle(S) == \E c \in Reachable(S) : c \in Reachable(Successors(c))

\* the classes the most recent call called without arguments at its top
\* level: the provider of a lookup, the unsupplied dependencies of a
\* constructed class
Started ==
    IF last.op = "get_instance" THEN {Target(last.cls, last.name)} \ {""}
    ELSE IF last.op = "construct" /\ last.cls \in AllInjectTypes
    THEN {Target(Requirement(last.cls, d), None) :
             d \in DeclaredNames(last.cls) \ DOMAIN last.kw} \ {""}
    ELSE {}

\* C20: a construct or a get_instance whose dependency declarations and
\* class bindings reach no cycle terminates (it never runs out of stack),
\* and one that reaches a cycle of unsupplied dependencies never completes
\* normally.
C20_Termination ==
    last.op \in {"construct", "get_instance"}
       => /\ ~ReachesCycle(Started) => last.err # "RecursionError"
          /\ ReachesCycle(Started) => ~last.ok /\ last.val = NoObj

\* CycA() with b unsupplied: CycB is looked up, which looks CycA up, and so
\* on until the stack is exhausted; no constructor is reached
C20_Witness ==
    /\ last.op = "construct" /\ last.cls = "CycA" /\ last.kw = <<>>
    /\ ReachesCycle(Started)
    /\ ~last.ok /\ last.err = "RecursionError"
    /\ \E i \in LogIdx : IsEvent(i, "get_instance", "CycB")
    /\ \E i \in LogIdx : IsEvent(i, "get_instance", "CycA")
    /\ ~\E i \in LogIdx : last.log[i].ev = "type_call"
====
